---- MODULE Spec2Model ----
(***************************************************************************)
(* State machine of the special-request form (App component).             *)
(*                                                                         *)
(* Text values (codes, descriptions, queries, typed input) are sequences   *)
(* of one-character strings, so that substring search, case folding,       *)
(* parseInt and String() are computed character by character.  Status      *)
(* messages are sequences of message parts (the empty sequence is the      *)
(* empty message).                                                         *)
(*                                                                         *)
(* Every action is one discrete event of the runtime: a user event with    *)
(* the re-render and effects that follow it, the continuation of an        *)
(* awaited fetch, or a timer callback.                                     *)
(***************************************************************************)
EXTENDS Integers, Sequences, FiniteSets, TLC

VARIABLES
    stores,            \* useState<Store[]>
    products,          \* useState<Product[]>
    requestItems,      \* useState<RequestItem[]>
    selectedStore,     \* useState<string>
    searchTerm,        \* useState<string>
    filteredProducts,  \* useState<Product[]>
    status,            \* useState<Status>
    isLoading,         \* useState<boolean>; the catalog fetch is pending while TRUE
    isSubmitting,      \* useState<boolean>
    inflight,          \* POST requests awaited by a handleSubmit, each its payload
    timers,            \* pending setTimeout callbacks, in the order they were scheduled
    now,               \* Date.now(), in clock ticks (a tick is shorter than any timer delay)
    busy,              \* user events handled since the pending write was sent
    fetches,           \* catalog requests (GET) issued by fetchMasterData so far
    issued             \* the ids handleAddItem has generated, in a session that logs them

vars == <<stores, products, requestItems, selectedStore, searchTerm,
          filteredProducts, status, isLoading, isSubmitting, inflight, timers, now,
          busy, fetches, issued>>

----------------------------------------------------------------------------
(* Bounds of the model *)

\* Date.now() is tracked below this tick: now = MaxNow stands for every later
\* time, and no identifier is generated there.
MaxNow == 1
\* Pending status timers, counting the one a pending write schedules on success.
MaxTimers == 1
\* User events handled while a write is pending, before it resolves or fails.
MaxBusy == 1
MaxCatalog == 12

----------------------------------------------------------------------------
(* Program constants *)

\* slice(0, 10) of the search effect
SearchCap == 10
\* setTimeout delays, in seconds (3000 ms and 5000 ms)
DuplicateNoticeDelay == 3
SuccessNoticeDelay == 5

----------------------------------------------------------------------------
(* Text helpers *)

Digits == <<"0", "1", "2", "3", "4", "5", "6", "7", "8", "9">>

DigitValue(c) == CHOOSE d \in 0..9 : Digits[d + 1] = c

IsDigit(c) == \E d \in 1..10 : Digits[d] = c

IsSpace(c) == c \in {" ", "\t", "\n"}

LowerMap ==
    [c \in {"A","B","C","D","E","F","G","H","I","J","K","L","M",
            "N","O","P","Q","R","S","T","U","V","W","X","Y","Z"} |->
        CASE c = "A" -> "a" [] c = "B" -> "b" [] c = "C" -> "c" [] c = "D" -> "d"
          [] c = "E" -> "e" [] c = "F" -> "f" [] c = "G" -> "g" [] c = "H" -> "h"
          [] c = "I" -> "i" [] c = "J" -> "j" [] c = "K" -> "k" [] c = "L" -> "l"
          [] c = "M" -> "m" [] c = "N" -> "n" [] c = "O" -> "o" [] c = "P" -> "p"
          [] c = "Q" -> "q" [] c = "R" -> "r" [] c = "S" -> "s" [] c = "T" -> "t"
          [] c = "U" -> "u" [] c = "V" -> "v" [] c = "W" -> "w" [] c = "X" -> "x"
          [] c = "Y" -> "y" [] c = "Z" -> "z"]

\* String.prototype.toLowerCase
ToLowerCase(s) ==
    [i \in 1..Len(s) |-> IF s[i] \in DOMAIN LowerMap THEN LowerMap[s[i]] ELSE s[i]]

\* String.prototype.includes
Includes(hay, needle) ==
    \E i \in 0..(Len(hay) - Len(needle)) : SubSeq(hay, i + 1, i + Len(needle)) = needle

RECURSIVE TrimStart(_)
TrimStart(s) ==
    IF s # <<>> /\ IsSpace(Head(s)) THEN TrimStart(Tail(s)) ELSE s

RECURSIVE TrimEnd(_)
TrimEnd(s) ==
    IF s # <<>> /\ IsSpace(s[Len(s)]) THEN TrimEnd(SubSeq(s, 1, Len(s) - 1)) ELSE s

\* String.prototype.trim
Trim(s) == TrimEnd(TrimStart(s))

RECURSIVE NatToStr(_)
NatToStr(n) ==
    IF n < 10 THEN <<Digits[n + 1]>>
    ELSE NatToStr(n \div 10) \o <<Digits[(n % 10) + 1]>>

\* String(qty) of a number
NumToString(n) == IF n < 0 THEN <<"-">> \o NatToStr(0 - n) ELSE NatToStr(n)

RECURSIVE DigitPrefix(_)
DigitPrefix(s) ==
    IF s # <<>> /\ IsDigit(Head(s)) THEN <<Head(s)>> \o DigitPrefix(Tail(s)) ELSE <<>>

RECURSIVE DigitsValue(_)
DigitsValue(ds) ==
    IF ds = <<>> THEN 0
    ELSE 10 * DigitsValue(SubSeq(ds, 1, Len(ds) - 1)) + DigitValue(ds[Len(ds)])

\* parseInt(text): leading white space skipped, an optional sign, then the
\* longest run of decimal digits; NaN when there is no digit.
ParseInt(text) ==
    LET t    == TrimStart(text)
        neg  == t # <<>> /\ Head(t) = "-"
        body == IF t # <<>> /\ Head(t) \in {"-", "+"} THEN Tail(t) ELSE t
        ds   == DigitPrefix(body)
    IN  IF ds = <<>> THEN [nan |-> TRUE, val |-> 0]
        ELSE [nan |-> FALSE, val |-> IF neg THEN 0 - DigitsValue(ds) ELSE DigitsValue(ds)]

\* e.target.value of <input type="number">: the typed text when it is a
\* valid number (here: an optional minus sign and digits), else "".
NumberInputValue(text) ==
    LET body == IF text # <<>> /\ Head(text) = "-" THEN Tail(text) ELSE text
    IN  IF body # <<>> /\ DigitPrefix(body) = body THEN text ELSE <<>>

\* parseInt(e.target.value) || 1
QtyOfInput(text) ==
    LET r == ParseInt(NumberInputValue(text))
    IN  IF r.nan \/ r.val = 0 THEN 1 ELSE r.val

----------------------------------------------------------------------------
(* Inputs *)

\* The master data served by the endpoint.
MasterData ==
    [stores |-> << [code |-> <<"S","1">>, name |-> <<"O","n","e">>] >>,
     items  |-> << [code |-> <<"P","1">>, desc |-> <<"W","i","d","g","e","t">>],
                   [code |-> <<"P","2">>, desc |-> <<"G","a","d","g","e","t">>] >>]

\* Outcomes of fetch(SCRIPT_URL) followed by res.json().
FetchOutcomes ==
    { [kind |-> "ok",    text |-> "OK"],
      [kind |-> "notok", text |-> "Not Found"],
      [kind |-> "throw", text |-> "Failed to fetch"] }

\* What the remote script answered to a POST (unreadable in no-cors mode).
RemoteAnswers == {"accepted", "rejected"}

\* Texts the user types into the search box.
Queries == { <<>>, <<"p">> }

\* Texts the user leaves in a qty input.
QtyTexts == { <<>>, <<"0">>, <<"-">>, <<"-","2">>, <<"5">> }

\* Texts the user leaves in a reason input.
ReasonTexts == { <<>>, <<"x">> }

----------------------------------------------------------------------------
(* Status values (the messages without their leading emoji) *)

Idle == [type |-> "idle", message |-> <<>>]
LoadingStatus == [type |-> "info", message |-> <<"Loading master data...">>]
LoadError(msg) == [type |-> "error", message |-> <<"Gagal load master data: ">> \o msg]
DuplicateNotice == [type |-> "info", message |-> <<"Produk sudah ada di daftar.">>]
NoStoreError == [type |-> "error", message |-> <<"Pilih store terlebih dahulu!">>]
NoItemError == [type |-> "error", message |-> <<"Tambahkan minimal satu item!">>]
SendingStatus == [type |-> "info", message |-> <<"Mengirim data...">>]
SuccessStatus ==
    [type |-> "success",
     message |-> <<"Data berhasil dikirim! Mohon periksa Google Sheet untuk konfirmasi.">>]
TransportError ==
    [type |-> "error",
     message |-> <<"Gagal submit: Terjadi kesalahan jaringan. Pastikan Anda terhubung ke internet.">>]

----------------------------------------------------------------------------
(* Pure parts of the handlers *)

Min(a, b) == IF a < b THEN a ELSE b

\* The option value of a store in the store selector.
StoreToken(store) == <<"[">> \o store.code \o <<"]", " ">> \o store.name

\* The values the store selector offers: the placeholder and one per store.
StoreOptions == {<<>>} \cup {StoreToken(stores[i]) : i \in DOMAIN stores}

Matches(p, q) ==
    \/ Includes(ToLowerCase(p.code), ToLowerCase(q))
    \/ Includes(ToLowerCase(p.desc), ToLowerCase(q))

\* Mutant: the catalog is cut to its first entries before it is filtered.
SearchSliceFirst(q, prods) ==
    IF Trim(q) = <<>> THEN <<>>
    ELSE SelectSeq(SubSeq(prods, 1, Min(Len(prods), SearchCap)),
                   LAMBDA p : Matches(p, q))

\* The search effect: what setFilteredProducts receives for a query and a catalog.
Search(q, prods) ==
    IF Trim(q) = <<>> THEN <<>>
    ELSE LET m == SelectSeq(prods, LAMBDA p : Matches(p, q))
         IN  SubSeq(m, 1, Min(Len(m), SearchCap))

\* A catalog of three products, as the endpoint can serve it.
ListCatalog ==
    << [code |-> <<"P","1">>, desc |-> <<"W","i","d","g","e","t">>],
       [code |-> <<"P","2">>, desc |-> <<"G","a","d","g","e","t">>],
       [code |-> <<"P","3">>, desc |-> <<"S","p","r","o","c","k","e","t">>] >>

\* The catalogs the endpoint can serve for the search: products P1, P2, ... in
\* this order, each a Widget but for up to two Gadgets (place 0 is no place).
Catalogs ==
    UNION { { [i \in 1..n |->
                 [code |-> <<"P">> \o NatToStr(i),
                  desc |-> IF i \in g THEN <<"G","a","d","g","e","t">>
                                      ELSE <<"W","i","d","g","e","t">>]] :
              g \in {{a, b} : a, b \in 0..n} } : n \in 1..MaxCatalog }

\* What the user types into the search input of such a catalog.
SearchQueries ==
    { <<>>, <<" ">>, <<" ","p">>, <<"p">>, <<"1">>, <<"P","1","1">>,
      <<"w","i","d">>, <<"G","A","D">>, <<"x">> }

\* Mutant: only the last line item is compared.
IsDuplicateOfLast(items, product) ==
    items # <<>> /\ items[Len(items)].code = product.code

\* requestItems.some(item => item.code === product.code)
IsDuplicate(items, product) == \E i \in DOMAIN items : items[i].code = product.code

\* Mutant: the new line item starts with no quantity.
NewItemQtyZero(product, t) ==
    [code   |-> product.code,
     desc   |-> product.desc,
     id     |-> product.code \o <<"-">> \o NatToStr(t),
     qty    |-> 0,
     reason |-> <<>>]

\* The line item handleAddItem builds at Date.now() = t.
NewItem(product, t) ==
    [code   |-> product.code,
     desc   |-> product.desc,
     id     |-> product.code \o <<"-">> \o NatToStr(t),
     qty    |-> 1,
     reason |-> <<>>]

\* Mutant: the id test is dropped and every row takes the value.
HandleItemChangeEveryRow(items, id, field, value) ==
    [i \in 1..Len(items) |-> [items[i] EXCEPT ![field] = value]]

\* handleItemChange's updater
HandleItemChange(items, id, field, value) ==
    [i \in 1..Len(items) |->
        IF items[i].id = id THEN [items[i] EXCEPT ![field] = value] ELSE items[i]]

\* Mutant: the last item is moved into the place of the deleted one.
HandleDeleteItemSwap(items, id) ==
    IF \A i \in DOMAIN items : items[i].id # id THEN items
    ELSE LET k == CHOOSE i \in DOMAIN items : items[i].id = id
         IN  [i \in 1..(Len(items) - 1) |-> IF i = k THEN items[Len(items)] ELSE items[i]]

\* handleDeleteItem's updater
HandleDeleteItem(items, id) == SelectSeq(items, LAMBDA it : it.id # id)

\* The store select's disabled attribute.
StoreSelectDisabled == isLoading

\* Mutant: the search input is disabled only while the catalog loads.
SearchDisabledWhileLoadingOnly == isLoading

\* The product search input's disabled attribute.
SearchDisabled == isLoading \/ Len(products) = 0

\* Mutant: the button is disabled only while the catalog loads.
SubmitDisabledWhileLoadingOnly == isLoading

\* The submit button's disabled attribute.
SubmitDisabled == isSubmitting \/ isLoading

\* Mutant: the two validation rules in the other order.
ValidationErrorItemsFirst(store, items) ==
    IF Len(items) = 0 THEN NoItemError
    ELSE IF store = <<>> THEN NoStoreError
    ELSE Idle

\* handleSubmit's validation: the error status it aborts with, or Idle when valid.
ValidationError(store, items) ==
    IF store = <<>> THEN NoStoreError
    ELSE IF Len(items) = 0 THEN NoItemError
    ELSE Idle

\* Mutant: code and description change places.
PayloadItemSwapped(item) ==
    [procode |-> item.desc,
     prodesc |-> item.code,
     qty     |-> NumToString(item.qty),
     reason  |-> item.reason]

\* One entry of the payload's items.
PayloadItem(item) ==
    [procode |-> item.code,
     prodesc |-> item.desc,
     qty     |-> NumToString(item.qty),
     reason  |-> item.reason]

\* The payload handleSubmit serialises.
Payload(store, items) ==
    [store |-> store, items |-> [i \in 1..Len(items) |-> PayloadItem(items[i])]]

\* setTimeout(callback, delay): the pending timers with one more.  A timer is
\* ripe once the clock has moved since it was scheduled.
SetTimeout(ts, delay) == Append(ts, [delay |-> delay, ripe |-> now = MaxNow])

\* The k-th pending timer may run now: time has passed since it was scheduled, and
\* no timer scheduled before it with a delay as short is still pending.
Due(ts, k) ==
    /\ ts[k].ripe
    /\ \A j \in 1..(k - 1) : ts[j].delay > ts[k].delay

\* Room for one more timer beside `pending` writes that schedule one on success.
TimerRoom(pending) == Len(timers) + pending < MaxTimers

\* The user gets another event in before the pending write ends.
UserMayAct == inflight = <<>> \/ busy < MaxBusy

\* The count of user events during the pending write, after one more event.
Busy == IF inflight = <<>> THEN 0 ELSE busy + 1

RemoveAt(s, k) == SubSeq(s, 1, k - 1) \o SubSeq(s, k + 1, Len(s))

----------------------------------------------------------------------------
(* Initial state: mounted, the mount effect has started fetchMasterData *)

Init ==
    /\ stores = <<>>
    /\ products = <<>>
    /\ requestItems = <<>>
    /\ selectedStore = <<>>
    /\ searchTerm = <<>>
    /\ filteredProducts = <<>>
    /\ status = LoadingStatus
    /\ isLoading = TRUE
    /\ isSubmitting = FALSE
    /\ inflight = <<>>
    /\ timers = <<>>
    /\ now = 0
    /\ busy = 0
    /\ fetches = 1
    /\ issued = {}

----------------------------------------------------------------------------
(* Events *)

\* Mutant: a failed load is tried again.
FetchMasterDataRetries(o) ==
    /\ UNCHANGED <<busy, issued>>
    /\ isLoading
    /\ IF o.kind = "ok"
       THEN /\ stores' = MasterData.stores
            /\ products' = MasterData.items
            /\ status' = Idle
            /\ isLoading' = FALSE
            /\ UNCHANGED fetches
       ELSE /\ status' = LoadingStatus
            /\ fetches' = fetches + 1
            /\ UNCHANGED <<stores, products, isLoading>>
    /\ filteredProducts' = Search(searchTerm, products')
    /\ UNCHANGED <<requestItems, selectedStore, searchTerm, isSubmitting,
                   inflight, timers, now>>

\* Mutant: the loading flag is cleared on success only.
FetchMasterDataStaysLoading(o) ==
    /\ UNCHANGED <<busy, fetches, issued>>
    /\ isLoading
    /\ IF o.kind = "ok"
       THEN /\ stores' = MasterData.stores
            /\ products' = MasterData.items
            /\ status' = Idle
            /\ isLoading' = FALSE
       ELSE /\ status' = LoadError(IF o.kind = "notok"
                                   THEN <<"Network response was not ok: ", o.text>>
                                   ELSE <<o.text>>)
            /\ UNCHANGED <<stores, products, isLoading>>
    /\ filteredProducts' = Search(searchTerm, products')
    /\ UNCHANGED <<requestItems, selectedStore, searchTerm, isSubmitting,
                   inflight, timers, now>>

\* fetchMasterData continues after its awaits.
FetchMasterDataDone(o) ==
    /\ UNCHANGED <<busy, fetches, issued>>
    /\ isLoading
    /\ IF o.kind = "ok"
       THEN /\ stores' = MasterData.stores
            /\ products' = MasterData.items
            /\ status' = Idle
       ELSE /\ status' = LoadError(IF o.kind = "notok"
                                   THEN <<"Network response was not ok: ", o.text>>
                                   ELSE <<o.text>>)
            /\ UNCHANGED <<stores, products>>
    /\ isLoading' = FALSE
    /\ filteredProducts' = Search(searchTerm, products')
    /\ UNCHANGED <<requestItems, selectedStore, searchTerm, isSubmitting,
                   inflight, timers, now>>

\* The store selector's onChange.
SelectStore(v) ==
    /\ UserMayAct
    /\ busy' = Busy
    /\ UNCHANGED <<fetches, issued>>
    /\ ~StoreSelectDisabled
    /\ v \in StoreOptions
    /\ v # selectedStore
    /\ selectedStore' = v
    /\ UNCHANGED <<stores, products, requestItems, searchTerm, filteredProducts,
                   status, isLoading, isSubmitting, inflight, timers, now>>

\* The search box's onChange and the search effect that follows.
ChangeSearch(q) ==
    /\ UserMayAct
    /\ busy' = Busy
    /\ UNCHANGED <<fetches, issued>>
    /\ ~SearchDisabled
    /\ q # searchTerm
    /\ searchTerm' = q
    /\ filteredProducts' = Search(q, products)
    /\ UNCHANGED <<stores, products, requestItems, selectedStore, status,
                   isLoading, isSubmitting, inflight, timers, now>>

\* handleClickOutside: a mousedown outside the search container.
ClickOutside ==
    /\ UserMayAct
    /\ busy' = Busy
    /\ UNCHANGED <<fetches, issued>>
    /\ filteredProducts # <<>>
    /\ filteredProducts' = <<>>
    /\ UNCHANGED <<stores, products, requestItems, selectedStore, searchTerm,
                   status, isLoading, isSubmitting, inflight, timers, now>>

\* Mutant: the duplicate notice is set but no timer is scheduled to clear it.
AddItemNoticeStays(i) ==
    /\ UserMayAct
    /\ busy' = Busy
    /\ UNCHANGED fetches
    /\ i \in DOMAIN filteredProducts
    /\ LET product == filteredProducts[i]
       IN  IF IsDuplicate(requestItems, product)
           THEN /\ status' = DuplicateNotice
                /\ UNCHANGED <<requestItems, searchTerm, filteredProducts, timers>>
           ELSE /\ now < MaxNow
                /\ requestItems' = Append(requestItems, NewItem(product, now))
                /\ searchTerm' = <<>>
                /\ filteredProducts' = <<>>
                /\ UNCHANGED <<status, timers>>
    /\ UNCHANGED <<stores, products, selectedStore, isLoading, isSubmitting,
                   inflight, now>>

\* handleAddItem(product), from a click on the i-th suggestion.
HandleAddItem(i) ==
    /\ UserMayAct
    /\ busy' = Busy
    /\ UNCHANGED fetches
    /\ i \in DOMAIN filteredProducts
    /\ LET product == filteredProducts[i]
       IN  IF IsDuplicate(requestItems, product)
           THEN /\ TimerRoom(Len(inflight))
                /\ status' = DuplicateNotice
                /\ timers' = SetTimeout(timers, DuplicateNoticeDelay)
                /\ UNCHANGED <<requestItems, searchTerm, filteredProducts>>
           ELSE /\ now < MaxNow
                /\ requestItems' = Append(requestItems, NewItem(product, now))
                /\ searchTerm' = <<>>
                /\ filteredProducts' = <<>>
                /\ UNCHANGED <<status, timers>>
    /\ UNCHANGED <<stores, products, selectedStore, isLoading, isSubmitting,
                   inflight, now>>

\* A click on the i-th suggestion, in a session that keeps no log of the ids.
AddItem(i) == HandleAddItem(i) /\ UNCHANGED issued

\* A click on the i-th suggestion, in a session that logs every id generated.
AddItemLogged(i) ==
    /\ HandleAddItem(i)
    /\ issued' = IF Len(requestItems') > Len(requestItems)
                 THEN issued \cup {requestItems'[Len(requestItems')].id}
                 ELSE issued

\* The qty input's onChange on the i-th row.
ChangeQty(i, text) ==
    /\ UserMayAct
    /\ busy' = Busy
    /\ UNCHANGED <<fetches, issued>>
    /\ i \in DOMAIN requestItems
    /\ requestItems' =
           HandleItemChange(requestItems, requestItems[i].id, "qty", QtyOfInput(text))
    /\ requestItems' # requestItems
    /\ UNCHANGED <<stores, products, selectedStore, searchTerm, filteredProducts,
                   status, isLoading, isSubmitting, inflight, timers, now>>

\* The reason input's onChange on the i-th row.
ChangeReason(i, text) ==
    /\ UserMayAct
    /\ busy' = Busy
    /\ UNCHANGED <<fetches, issued>>
    /\ i \in DOMAIN requestItems
    /\ text # requestItems[i].reason
    /\ requestItems' =
           HandleItemChange(requestItems, requestItems[i].id, "reason", text)
    /\ UNCHANGED <<stores, products, selectedStore, searchTerm, filteredProducts,
                   status, isLoading, isSubmitting, inflight, timers, now>>

\* The Hapus button of the i-th row.
DeleteItem(i) ==
    /\ UserMayAct
    /\ busy' = Busy
    /\ UNCHANGED <<fetches, issued>>
    /\ i \in DOMAIN requestItems
    /\ requestItems' = HandleDeleteItem(requestItems, requestItems[i].id)
    /\ UNCHANGED <<stores, products, selectedStore, searchTerm, filteredProducts,
                   status, isLoading, isSubmitting, inflight, timers, now>>

\* handleSubmit up to its await, from a click on the submit button.
Submit ==
    /\ ~SubmitDisabled
    /\ UserMayAct
    /\ busy' = Busy
    /\ UNCHANGED <<fetches, issued>>
    /\ LET err == ValidationError(selectedStore, requestItems)
       IN  IF err # Idle
           THEN /\ status' = err
                /\ UNCHANGED <<isSubmitting, inflight>>
           ELSE /\ TimerRoom(0)
                /\ isSubmitting' = TRUE
                /\ status' = SendingStatus
                /\ inflight' = Append(inflight, Payload(selectedStore, requestItems))
    /\ UNCHANGED <<stores, products, requestItems, selectedStore, searchTerm,
                   filteredProducts, isLoading, timers, now>>

\* Mutant: success schedules no timer.
SubmitResolvedNoTimer(k, answer) ==
    /\ k \in DOMAIN inflight
    /\ answer \in RemoteAnswers
    /\ inflight' = RemoveAt(inflight, k)
    /\ busy' = IF inflight' = <<>> THEN 0 ELSE busy
    /\ UNCHANGED <<fetches, issued>>
    /\ status' = SuccessStatus
    /\ requestItems' = <<>>
    /\ selectedStore' = <<>>
    /\ isSubmitting' = FALSE
    /\ UNCHANGED <<stores, products, searchTerm, filteredProducts, isLoading,
                   timers, now>>

\* Mutant: the response is read, and a rejection by the remote script is an error.
SubmitResolvedReadsAnswer(k, answer) ==
    /\ k \in DOMAIN inflight
    /\ answer \in RemoteAnswers
    /\ inflight' = RemoveAt(inflight, k)
    /\ busy' = IF inflight' = <<>> THEN 0 ELSE busy
    /\ UNCHANGED <<fetches, issued>>
    /\ isSubmitting' = FALSE
    /\ IF answer = "accepted"
       THEN /\ status' = SuccessStatus
            /\ requestItems' = <<>>
            /\ selectedStore' = <<>>
            /\ timers' = SetTimeout(timers, SuccessNoticeDelay)
       ELSE /\ status' = TransportError
            /\ UNCHANGED <<requestItems, selectedStore, timers>>
    /\ UNCHANGED <<stores, products, searchTerm, filteredProducts, isLoading, now>>

\* The awaited POST resolves (opaque response): handleSubmit's try block ends,
\* then its finally block.
SubmitResolved(k, answer) ==
    /\ k \in DOMAIN inflight
    /\ answer \in RemoteAnswers
    /\ inflight' = RemoveAt(inflight, k)
    /\ busy' = IF inflight' = <<>> THEN 0 ELSE busy
    /\ UNCHANGED <<fetches, issued>>
    /\ status' = SuccessStatus
    /\ requestItems' = <<>>
    /\ selectedStore' = <<>>
    /\ timers' = SetTimeout(timers, SuccessNoticeDelay)
    /\ isSubmitting' = FALSE
    /\ UNCHANGED <<stores, products, searchTerm, filteredProducts, isLoading, now>>

\* Mutant: the catch block resets the form as the success path does.
SubmitFailedResetsForm(k) ==
    /\ k \in DOMAIN inflight
    /\ inflight' = RemoveAt(inflight, k)
    /\ busy' = IF inflight' = <<>> THEN 0 ELSE busy
    /\ UNCHANGED <<fetches, issued>>
    /\ status' = TransportError
    /\ requestItems' = <<>>
    /\ selectedStore' = <<>>
    /\ isSubmitting' = FALSE
    /\ UNCHANGED <<stores, products, searchTerm, filteredProducts, isLoading,
                   timers, now>>

\* Mutant: isSubmitting is cleared in the try block only, not in a finally block.
SubmitFailedLeavesFlag(k) ==
    /\ k \in DOMAIN inflight
    /\ inflight' = RemoveAt(inflight, k)
    /\ busy' = IF inflight' = <<>> THEN 0 ELSE busy
    /\ UNCHANGED <<fetches, issued>>
    /\ status' = TransportError
    /\ UNCHANGED <<stores, products, requestItems, selectedStore, searchTerm,
                   filteredProducts, isLoading, isSubmitting, timers, now>>

\* The awaited POST throws: handleSubmit's catch block, then its finally block.
SubmitFailed(k) ==
    /\ k \in DOMAIN inflight
    /\ inflight' = RemoveAt(inflight, k)
    /\ busy' = IF inflight' = <<>> THEN 0 ELSE busy
    /\ UNCHANGED <<fetches, issued>>
    /\ status' = TransportError
    /\ isSubmitting' = FALSE
    /\ UNCHANGED <<stores, products, requestItems, selectedStore, searchTerm,
                   filteredProducts, isLoading, timers, now>>

\* Mutant: the callback clears a notice only, and leaves an error in place.
TimerFiresKeepsErrors(k) ==
    /\ UNCHANGED <<busy, fetches, issued>>
    /\ k \in DOMAIN timers
    /\ Due(timers, k)
    /\ timers' = RemoveAt(timers, k)
    /\ status' = IF status.type = "error" THEN status ELSE Idle
    /\ UNCHANGED <<stores, products, requestItems, selectedStore, searchTerm,
                   filteredProducts, isLoading, isSubmitting, inflight, now>>

\* A due status timer runs its callback.
TimerFires(k) ==
    /\ UNCHANGED <<busy, fetches, issued>>
    /\ k \in DOMAIN timers
    /\ Due(timers, k)
    /\ timers' = RemoveAt(timers, k)
    /\ status' = Idle
    /\ UNCHANGED <<stores, products, requestItems, selectedStore, searchTerm,
                   filteredProducts, isLoading, isSubmitting, inflight, now>>

\* The clock advances by one tick.
Tick ==
    /\ UNCHANGED <<busy, fetches, issued>>
    /\ now < MaxNow
    /\ now' = now + 1
    /\ timers' = [i \in 1..Len(timers) |-> [timers[i] EXCEPT !.ripe = TRUE]]
    /\ UNCHANGED <<stores, products, requestItems, selectedStore, searchTerm,
                   filteredProducts, status, isLoading, isSubmitting, inflight>>

Next ==
    \/ \E o \in FetchOutcomes : FetchMasterDataDone(o)
    \/ \E v \in StoreOptions : SelectStore(v)
    \/ \E q \in Queries : ChangeSearch(q)
    \/ ClickOutside
    \/ \E i \in 1..Len(filteredProducts) : AddItem(i)
    \/ \E i \in 1..Len(requestItems), t \in QtyTexts : ChangeQty(i, t)
    \/ \E i \in 1..Len(requestItems), t \in ReasonTexts : ChangeReason(i, t)
    \/ \E i \in 1..Len(requestItems) : DeleteItem(i)
    \/ Submit
    \/ \E k \in 1..Len(inflight), a \in RemoteAnswers : SubmitResolved(k, a)
    \/ \E k \in 1..Len(inflight) : SubmitFailed(k)
    \/ \E k \in 1..Len(timers) : TimerFires(k)
    \/ Tick

Spec == Init /\ [][Next]_vars

\* The events of a session that logs every id it generates.
SessionNext ==
    \/ \E o \in FetchOutcomes : FetchMasterDataDone(o)
    \/ \E v \in StoreOptions : SelectStore(v)
    \/ \E q \in Queries : ChangeSearch(q)
    \/ ClickOutside
    \/ \E i \in 1..Len(filteredProducts) : AddItemLogged(i)
    \/ \E i \in 1..Len(requestItems), t \in QtyTexts : ChangeQty(i, t)
    \/ \E i \in 1..Len(requestItems), t \in ReasonTexts : ChangeReason(i, t)
    \/ \E i \in 1..Len(requestItems) : DeleteItem(i)
    \/ Submit
    \/ \E k \in 1..Len(inflight), a \in RemoteAnswers : SubmitResolved(k, a)
    \/ \E k \in 1..Len(inflight) : SubmitFailed(k)
    \/ \E k \in 1..Len(timers) : TimerFires(k)
    \/ Tick

SessionSpec == Init /\ [][SessionNext]_vars

\* The state once fetchMasterData has loaded ListCatalog.
ListInit ==
    /\ stores = MasterData.stores
    /\ products = ListCatalog
    /\ requestItems = <<>>
    /\ selectedStore = <<>>
    /\ searchTerm = <<>>
    /\ filteredProducts = <<>>
    /\ status = Idle
    /\ isLoading = FALSE
    /\ isSubmitting = FALSE
    /\ inflight = <<>>
    /\ timers = <<>>
    /\ now = 0
    /\ busy = 0
    /\ fetches = 1
    /\ issued = {}

\* The events that build and edit the request list.
ListNext ==
    \/ \E q \in Queries : ChangeSearch(q)
    \/ ClickOutside
    \/ \E i \in 1..Len(filteredProducts) : AddItem(i)
    \/ \E i \in 1..Len(requestItems), t \in QtyTexts : ChangeQty(i, t)
    \/ \E i \in 1..Len(requestItems), t \in ReasonTexts : ChangeReason(i, t)
    \/ \E i \in 1..Len(requestItems) : DeleteItem(i)
    \/ \E k \in 1..Len(timers) : TimerFires(k)
    \/ Tick

ListSpec == ListInit /\ [][ListNext]_vars

\* The state once fetchMasterData has loaded one of Catalogs.
SearchInit ==
    /\ stores = MasterData.stores
    /\ products \in Catalogs
    /\ requestItems = <<>>
    /\ selectedStore = <<>>
    /\ searchTerm = <<>>
    /\ filteredProducts = <<>>
    /\ status = Idle
    /\ isLoading = FALSE
    /\ isSubmitting = FALSE
    /\ inflight = <<>>
    /\ timers = <<>>
    /\ now = 0
    /\ busy = 0
    /\ fetches = 1
    /\ issued = {}

\* The events of the search box.
SearchNext ==
    \/ \E q \in SearchQueries : ChangeSearch(q)
    \/ ClickOutside

SearchSpec == SearchInit /\ [][SearchNext]_vars

\* Both fetches settle, time passes and due timers run; the user may stop at any point.
Fairness ==
    /\ WF_vars(\E o \in FetchOutcomes : FetchMasterDataDone(o))
    /\ WF_vars(\/ \E k \in 1..Len(inflight), a \in RemoteAnswers : SubmitResolved(k, a)
               \/ \E k \in 1..Len(inflight) : SubmitFailed(k))
    /\ WF_vars(\E k \in 1..Len(timers) : TimerFires(k))
    /\ WF_vars(Tick)

FairSpec == Spec /\ Fairness

----------------------------------------------------------------------------
(* Submission controller *)

\* C1: in every reachable state at most one submission write is in flight, and
\* while one is in flight the submit button is disabled.
C1_SingleWriteInFlight ==
    /\ Len(inflight) <= 1
    /\ inflight # <<>> => SubmitDisabled

\* C1 witness: a write is in flight and the user has acted since it was sent.
C1_Witness == Len(inflight) = 1 /\ isSubmitting /\ busy = 1

\* C2: a submit with no store selected ends with the error "select a store
\* first", also when the list is empty; otherwise a submit with an empty list
\* ends with the error "add at least one item"; either way no write is sent,
\* isSubmitting stays false and the list and the store are unchanged.
C2_ValidationOrder ==
    [][Submit =>
          /\ selectedStore = <<>> =>
                 /\ status' = NoStoreError
                 /\ inflight' = inflight /\ isSubmitting' = FALSE
                 /\ requestItems' = requestItems /\ selectedStore' = selectedStore
          /\ (selectedStore # <<>> /\ requestItems = <<>>) =>
                 /\ status' = NoItemError
                 /\ inflight' = inflight /\ isSubmitting' = FALSE
                 /\ requestItems' = requestItems /\ selectedStore' = selectedStore]_vars

\* C2 witness: a submit with neither a store nor an item was refused for the store.
C2_Witness ==
    /\ status = NoStoreError
    /\ selectedStore = <<>> /\ requestItems = <<>>
    /\ inflight = <<>> /\ ~isSubmitting

\* C3: when a write in flight resolves, whatever the remote script answered,
\* the status is the success status, the list and the store selection are
\* empty and isSubmitting is false.
C3_ResolveIsSuccess ==
    [][(\E k \in 1..Len(inflight), a \in RemoteAnswers : SubmitResolved(k, a)) =>
          /\ status' = SuccessStatus
          /\ requestItems' = <<>>
          /\ selectedStore' = <<>>
          /\ isSubmitting' = FALSE]_vars

\* C3 witness: the state a resolved write leaves.
C3_Witness ==
    /\ status = SuccessStatus
    /\ requestItems = <<>> /\ selectedStore = <<>>
    /\ ~isSubmitting /\ inflight = <<>>

\* C4 as stated: when a write in flight fails, the status is the transport
\* error, the list and the store are unchanged, and a submit issued right
\* afterwards passes validation and can be sent.
C4_RetryAlwaysPasses ==
    [][(\E k \in 1..Len(inflight) : SubmitFailed(k)) =>
          /\ status' = TransportError
          /\ requestItems' = requestItems
          /\ selectedStore' = selectedStore
          /\ ~SubmitDisabled'
          /\ ValidationError(selectedStore', requestItems') = Idle]_vars

\* C4 amended: when a write in flight fails, the status is the transport error,
\* the list and the store are unchanged by that transition and the submit button
\* is enabled again; a submit issued right afterwards sends a new write with
\* that list and store if the store is still selected and the list still has an
\* item (both can be emptied while the write is in flight).
C4_FailureKeepsForm ==
    [][/\ (\E k \in 1..Len(inflight) : SubmitFailed(k)) =>
              /\ status' = TransportError
              /\ requestItems' = requestItems
              /\ selectedStore' = selectedStore
              /\ ~SubmitDisabled'
       /\ (Submit /\ status = TransportError
                  /\ selectedStore # <<>> /\ requestItems # <<>>) =>
              /\ inflight' = <<Payload(selectedStore, requestItems)>>
              /\ requestItems' = requestItems
              /\ selectedStore' = selectedStore]_vars

\* C4 witness: a failed write has left its list and store in place.
C4_Witness ==
    /\ status = TransportError
    /\ requestItems # <<>> /\ selectedStore # <<>>
    /\ inflight = <<>>

\* C5: every submission that enters Sending ends (the fetch settling), the
\* transition that ends it clears isSubmitting and enables the submit button,
\* and isSubmitting is true exactly while a write is in flight.
C5_SendingEnds ==
    /\ isSubmitting ~> ~isSubmitting
    /\ [](isSubmitting <=> inflight # <<>>)
    /\ [][(\/ \E k \in 1..Len(inflight), a \in RemoteAnswers : SubmitResolved(k, a)
           \/ \E k \in 1..Len(inflight) : SubmitFailed(k)) =>
              ~isSubmitting' /\ ~SubmitDisabled']_vars

\* C5 witness: a submission has ended and the button is enabled again.
C5_Witness ==
    /\ status \in {SuccessStatus, TransportError}
    /\ ~isSubmitting /\ ~SubmitDisabled /\ inflight = <<>>

\* C6 as stated: in a terminal state of the submission controller, Success or
\* Error, a timer that returns the status to idle is pending.
C6_TerminalStatusHasTimer ==
    status \in {SuccessStatus, TransportError, NoStoreError, NoItemError}
        => timers # <<>>

\* C6 amended: after Success the status returns to idle, with an empty message,
\* with no user action needed; an Error (validation or transport) schedules no
\* timer and stays until a later event replaces it.
C6_SuccessReturnsToIdle ==
    /\ (status = SuccessStatus) ~> (status = Idle /\ status.message = <<>>)
    /\ [][(\/ \E k \in 1..Len(inflight) : SubmitFailed(k)
           \/ Submit /\ status' \in {NoStoreError, NoItemError}) =>
              timers' = timers]_vars

\* C6 witness: the success status is shown and its timer is ready to run.
C6_Witness ==
    /\ status = SuccessStatus
    /\ timers = <<[delay |-> SuccessNoticeDelay, ripe |-> TRUE]>>

----------------------------------------------------------------------------
(* Request list manager *)

\* C7: in every reachable state no two line items have the same product code.
C7_UniqueCodes ==
    \A i, j \in DOMAIN requestItems :
        i # j => requestItems[i].code # requestItems[j].code

\* C7 witness: a two-item list for which an add of a listed product was refused.
C7_Witness == Len(requestItems) = 2 /\ status = DuplicateNotice

\* C8: in every reachable state every line item has a qty >= 1.
C8_QtyAtLeastOne ==
    \A i \in DOMAIN requestItems : requestItems[i].qty >= 1

\* C9: an add of a product whose code is not in the list appends one line item
\* with the product's code and description, qty 1 and an empty reason, leaves
\* the items before it as they were, and clears the query and the result list.
C9_AddAppends ==
    [][\A i \in DOMAIN filteredProducts :
          (AddItem(i) /\ ~IsDuplicate(requestItems, filteredProducts[i])) =>
              /\ Len(requestItems') = Len(requestItems) + 1
              /\ SubSeq(requestItems', 1, Len(requestItems)) = requestItems
              /\ LET new == requestItems'[Len(requestItems')]
                 IN  /\ new.code = filteredProducts[i].code
                     /\ new.desc = filteredProducts[i].desc
                     /\ new.qty = 1
                     /\ new.reason = <<>>
              /\ searchTerm' = <<>>
              /\ filteredProducts' = <<>>]_vars

\* C9 witness: a second item was appended behind an edited one.
C9_Witness ==
    /\ Len(requestItems) = 2
    /\ requestItems[1].qty = 5 /\ requestItems[1].reason = <<"x">>
    /\ requestItems[2].qty = 1 /\ requestItems[2].reason = <<>>
    /\ searchTerm = <<>> /\ filteredProducts = <<>>

\* C10: an add of a product whose code is in the list leaves the list as it
\* was, sets the informational duplicate notice (not an error) and schedules
\* its timer; the notice is cleared to idle afterwards.
C10_DuplicateAdd ==
    /\ [][\A i \in DOMAIN filteredProducts :
             (AddItem(i) /\ IsDuplicate(requestItems, filteredProducts[i])) =>
                 /\ requestItems' = requestItems
                 /\ status' = DuplicateNotice
                 /\ status'.type = "info"
                 /\ Len(timers') = Len(timers) + 1
                 /\ timers'[Len(timers')].delay = DuplicateNoticeDelay]_vars
    /\ (status = DuplicateNotice) ~> (status = Idle)

\* C10 witness: the only product of a one-item list was added again.
C10_Witness ==
    /\ Len(requestItems) = 1
    /\ status = DuplicateNotice
    /\ timers = <<[delay |-> DuplicateNoticeDelay, ripe |-> TRUE]>>

\* The identifiers update and remove are tried with: one per product of the
\* catalog and clock value, in the list or not.
CandidateIds ==
    {NewItem(products[i], t).id : i \in DOMAIN products, t \in 0..MaxNow}

\* The list r is requestItems with `field` of the item `id` set to `value`
\* and nothing else changed.
OnlyFieldChanged(r, id, field, value) ==
    /\ Len(r) = Len(requestItems)
    /\ \A i \in DOMAIN requestItems :
          IF requestItems[i].id = id
          THEN /\ r[i][field] = value
               /\ r[i].code = requestItems[i].code
               /\ r[i].desc = requestItems[i].desc
               /\ r[i].id = requestItems[i].id
               /\ field = "qty" => r[i].reason = requestItems[i].reason
               /\ field = "reason" => r[i].qty = requestItems[i].qty
          ELSE r[i] = requestItems[i]
    /\ (\A i \in DOMAIN requestItems : requestItems[i].id # id) => r = requestItems

\* C11: on every reachable list, update(id, field, value) sets only the named
\* field of the item with that id, in place, and leaves the list as it is when
\* no item has that id.
C11_UpdateChangesOneField ==
    \A id \in CandidateIds :
        /\ \A t \in QtyTexts :
              OnlyFieldChanged(HandleItemChange(requestItems, id, "qty", QtyOfInput(t)),
                               id, "qty", QtyOfInput(t))
        /\ \A t \in ReasonTexts :
              OnlyFieldChanged(HandleItemChange(requestItems, id, "reason", t),
                               id, "reason", t)

\* C11 witness: two items, the first with an edited qty only, the second with
\* an edited reason only.
C11_Witness ==
    /\ Len(requestItems) = 2
    /\ requestItems[1].qty = 5 /\ requestItems[1].reason = <<>>
    /\ requestItems[2].qty = 1 /\ requestItems[2].reason = <<"x">>

\* The list r is requestItems without its k-th item.
WithoutItem(r, k) ==
    /\ Len(r) = Len(requestItems) - 1
    /\ \A i \in DOMAIN r : r[i] = requestItems[IF i < k THEN i ELSE i + 1]

\* C12: on every reachable list, remove(id) of an id in the list yields the
\* list without that item, one shorter and in the same order; remove(id) of an
\* id not in the list, a second remove of the same id included, changes nothing.
C12_RemoveDropsOne ==
    \A id \in CandidateIds :
        LET r == HandleDeleteItem(requestItems, id)
        IN  /\ \A k \in DOMAIN requestItems :
                  requestItems[k].id = id => WithoutItem(r, k)
            /\ (\A k \in DOMAIN requestItems : requestItems[k].id # id) =>
                  r = requestItems
            /\ HandleDeleteItem(r, id) = r

\* C12 witness: three items in an order of their own, the middle one edited.
C12_Witness ==
    /\ Len(requestItems) = 3
    /\ requestItems[1].code = <<"P","3">>
    /\ requestItems[2].code = <<"P","1">> /\ requestItems[2].qty = 5
    /\ requestItems[3].code = <<"P","2">>

\* A letter without its case.
Fold(c) == IF c \in DOMAIN LowerMap THEN LowerMap[c] ELSE c

\* The text holds q as a substring, case apart.
ContainsNoCase(text, q) ==
    \E k \in 0..(Len(text) - Len(q)) :
        \A j \in 1..Len(q) : Fold(text[k + j]) = Fold(q[j])

\* The places of the catalog whose product matches q by its code or description.
MatchingPlaces(q, prods) ==
    {i \in DOMAIN prods : ContainsNoCase(prods[i].code, q) \/ ContainsNoCase(prods[i].desc, q)}

\* r is what the search of prods for q has to be.
IsSearchResult(r, q, prods) ==
    IF \A i \in DOMAIN q : q[i] = " "
    THEN r = <<>>
    ELSE LET places == MatchingPlaces(q, prods)
             rank(i) == Cardinality({j \in places : j <= i})
         IN  /\ Len(r) = IF Cardinality(places) < 10 THEN Cardinality(places) ELSE 10
             /\ \A i \in places : rank(i) <= 10 => r[rank(i)] = prods[i]

\* C13: for every query typed and every catalog, the search result is empty
\* when the query is blank, and otherwise holds the first 10 (or fewer)
\* products, in catalog order, whose code or description contains the query
\* case apart; a matching product is missing only behind 10 earlier matches.
C13_SearchIsFirstTenMatches ==
    [][\A q \in SearchQueries :
          ChangeSearch(q) => IsSearchResult(filteredProducts', q, products)]_vars

\* C13 witness: twelve products, a Gadget among the first ten, eleven Widgets
\* matching "wid": the result is ten Widgets, the tenth being the 11th product.
C13_Witness ==
    /\ Len(products) = 12
    /\ searchTerm = <<"w","i","d">>
    /\ Cardinality(MatchingPlaces(searchTerm, products)) = 11
    /\ Len(filteredProducts) = 10
    /\ filteredProducts[10] = products[11]

\* The write w carries the selected store and the request list, item by item.
CarriesForm(w) ==
    /\ w.store = selectedStore
    /\ Len(w.items) = Len(requestItems)
    /\ \A i \in DOMAIN requestItems :
          /\ w.items[i].procode = requestItems[i].code
          /\ w.items[i].prodesc = requestItems[i].desc
          /\ w.items[i].reason = requestItems[i].reason
          /\ \A j \in 1..Len(w.items[i].qty) :
                IsDigit(w.items[i].qty[j]) \/ w.items[i].qty[j] = "-"
          /\ ParseInt(w.items[i].qty) = [nan |-> FALSE, val |-> requestItems[i].qty]

\* C14: a submit with a store selected and a non-empty list sends exactly one
\* write, whose store is the selected store token and whose items are the line
\* items in list order, each with procode, prodesc, the qty as a string and the
\* reason.
C14_SubmitSendsForm ==
    [][(Submit /\ selectedStore # <<>> /\ requestItems # <<>>) =>
          /\ Len(inflight') = Len(inflight) + 1
          /\ SubSeq(inflight', 1, Len(inflight)) = inflight
          /\ CarriesForm(inflight'[Len(inflight')])]_vars

\* C14 witness: a write just sent with two items, the first with qty "5".
C14_Witness ==
    /\ Len(inflight) = 1 /\ busy = 0
    /\ inflight[1].store = StoreToken(stores[1])
    /\ Len(inflight[1].items) = 2
    /\ inflight[1].items[1].qty = <<"5">>
    /\ inflight[1].items[2].reason = <<"x">>

\* C15: one catalog fetch is issued, by the mount effect; no event and no
\* outcome of the fetch or of a submission issues another.
C15_OneCatalogFetch == fetches = 1

\* C15 witness: the catalog loaded and a submission failed, with one fetch made.
C15_Witness ==
    /\ fetches = 1
    /\ ~isLoading /\ products # <<>>
    /\ status = TransportError

\* The catalog fetch has failed.
LoadFailed == ~isLoading /\ stores = <<>> /\ products = <<>>

\* C16: a failed catalog fetch sets an error status that carries the failure's
\* message, leaves stores and products empty and clears the loading flag; the
\* session then still handles events (a submit click is taken).
C16_LoadFailure ==
    /\ [][\A o \in FetchOutcomes :
             (o.kind # "ok" /\ FetchMasterDataDone(o)) =>
                /\ status'.type = "error"
                /\ status'.message[1] = "Gagal load master data: "
                /\ status'.message[Len(status'.message)] = o.text
                /\ stores' = <<>> /\ products' = <<>>
                /\ ~isLoading']_vars
    /\ [](LoadFailed => ENABLED Submit)

\* C16 witness: after a failed load, a submit click was handled.
C16_Witness == LoadFailed /\ status = NoStoreError

Delays(ts) == [i \in 1..Len(ts) |-> ts[i].delay]

C19_DiscardsOnlySent ==
    [][\A k \in DOMAIN inflight, a \in RemoteAnswers :
          SubmitResolved(k, a) =>
             /\ \A i \in DOMAIN requestItems :
                   (\A j \in DOMAIN requestItems' : requestItems'[j] # requestItems[i]) =>
                      \E j \in DOMAIN inflight[k].items :
                          inflight[k].items[j] = PayloadItem(requestItems[i])
             /\ selectedStore' # selectedStore => selectedStore = inflight[k].store]_vars

\* C20 as stated: an add never generates an id that an earlier add of the
\* session generated, whether or not that item is still in the list; no two
\* items of the list share an id, and update and remove of an id touch at most
\* one item.
C20_IdsUniqueInSession ==
    /\ [][\A i \in DOMAIN filteredProducts :
             (AddItemLogged(i) /\ Len(requestItems') > Len(requestItems)) =>
                requestItems'[Len(requestItems')].id \notin issued]_vars
    /\ [](\A i, j \in DOMAIN requestItems :
             i # j => requestItems[i].id # requestItems[j].id)
    /\ [](\A id \in CandidateIds :
             /\ Len(HandleDeleteItem(requestItems, id)) >= Len(requestItems) - 1
             /\ Cardinality({i \in DOMAIN requestItems :
                   HandleItemChange(requestItems, id, "reason", <<"x">>)[i]
                      # requestItems[i]}) <= 1)

====
